---- MODULE Spec2Model ----
(***************************************************************************)
(* SMCHash (smchash/src/lib.rs): the 128-bit digest engine, the            *)
(* proof-of-work search and verification built on it, and the Block        *)
(* record that uses both.                                                  *)
(*                                                                         *)
(* A u32 is the pair <<hi, lo>> of its 16-bit halves, so that every        *)
(* intermediate value stays inside TLC's integers while the arithmetic     *)
(* is still exactly arithmetic modulo 2^32.  A byte is a number 0..255, a  *)
(* byte string a sequence of bytes.                                        *)
(***************************************************************************)
EXTENDS Integers, Sequences, FiniteSets, TLC

\* ------------------------------------------------------------------------
\* Bit operations on naturals (the operands are at most 16 bits wide).
\* ------------------------------------------------------------------------

RECURSIVE BitAnd(_, _)
BitAnd(x, y) ==
    IF x = 0 \/ y = 0 THEN 0
    ELSE ((x % 2) * (y % 2)) + (2 * BitAnd(x \div 2, y \div 2))

BitOr(x, y) == x + y - BitAnd(x, y)

BitXor(x, y) == x + y - 2 * BitAnd(x, y)

Pow2(n) == 2 ^ n

\* >> on a u8 with a shift count below 8
ShrU8(x, n) == x \div Pow2(n)

\* ------------------------------------------------------------------------
\* u32 as <<hi, lo>>
\* ------------------------------------------------------------------------

Half == 2 ^ 16

W32(hi, lo) == <<hi, lo>>

\* u32::wrapping_add
WrappingAdd(x, y) ==
    LET lo == x[2] + y[2]
        hi == x[1] + y[1] + (lo \div Half)
    IN  <<hi % Half, lo % Half>>

And32(x, y) == <<BitAnd(x[1], y[1]), BitAnd(x[2], y[2])>>

Or32(x, y) == <<BitOr(x[1], y[1]), BitOr(x[2], y[2])>>

Xor32(x, y) == <<BitXor(x[1], y[1]), BitXor(x[2], y[2])>>

\* !x
Not32(x) == <<Half - 1 - x[1], Half - 1 - x[2]>>

\* fn rotl(x, n) = (x << n) | (x >> (32 - n)), for 0 < n < 32
rotl(x, n) ==
    LET s  == IF n >= 16 THEN <<x[2], x[1]>> ELSE x
        m  == n % 16
        hi == ((s[1] * Pow2(m)) % Half) + (s[2] \div Pow2(16 - m))
        lo == ((s[2] * Pow2(m)) % Half) + (s[1] \div Pow2(16 - m))
    IN  <<hi, lo>>

\* u32::from_le_bytes
FromLeBytes(b) == <<b[4] * 256 + b[3], b[2] * 256 + b[1]>>

\* u32::to_le_bytes
ToLeBytes32(x) == <<x[2] % 256, x[2] \div 256, x[1] % 256, x[1] \div 256>>

\* u64::to_le_bytes, for the values the model uses (below 2^31)
ToLeBytes64(n) == [i \in 1..8 |-> IF i <= 4 THEN (n \div Pow2(8 * (i - 1))) % 256 ELSE 0]

\* ------------------------------------------------------------------------
\* The compression function (process_block)
\* ------------------------------------------------------------------------

InitialState ==
    << W32(27145, 58983),     \* 0x6a09e667
       W32(47975, 44677),     \* 0xbb67ae85
       W32(15470, 62322),     \* 0x3c6ef372
       W32(42319, 62778) >>   \* 0xa54ff53a

\* let f = match round { ... }
MixF(round, b, c, d) ==
    CASE round = 0 -> Or32(And32(b, c), And32(Not32(b), d))
      [] round = 1 -> Or32(And32(b, d), And32(c, Not32(d)))
      [] round = 2 -> Xor32(Xor32(b, c), d)
      [] OTHER     -> Xor32(c, Or32(b, Not32(d)))

\* let word_idx = match round { ... }
WordIdx(round, i) ==
    CASE round = 0 -> i
      [] round = 1 -> (5 * i + 1) % 16
      [] round = 2 -> (3 * i + 5) % 16
      [] OTHER     -> (7 * i) % 16

\* let k = match round { ... } + i as u32   (the sum never leaves u32)
RoundK(round, i) ==
    WrappingAdd(
        CASE round = 0 -> W32(31180, 17689)     \* 0x79cc4519
          [] round = 1 -> W32(40330, 31367)     \* 0x9d8a7a87
          [] round = 2 -> W32(59829, 56229)     \* 0xe9b5dba5
          [] OTHER     -> W32(49563, 62068),    \* 0xc19bf274
        W32(0, i))

\* let s = match round { ... };  s[i % 4]
RotAmount(round, i) ==
    (CASE round = 0 -> <<7, 12, 17, 22>>
       [] round = 1 -> <<5, 9, 14, 20>>
       [] round = 2 -> <<4, 11, 16, 23>>
       [] OTHER     -> <<6, 10, 15, 21>>)[(i % 4) + 1]

\* the sixteen little-endian words of a 64-byte block
BlockWords(block) ==
    [i \in 1..16 |-> FromLeBytes(SubSeq(block, 4 * (i - 1) + 1, 4 * i))]

\* one step of the inner loop on the registers r = <<a, b, c, d>>
MixStep(r, words, round, i) ==
    LET a == r[1]
        b == r[2]
        c == r[3]
        d == r[4]
        f == MixF(round, b, c, d)
        t == WrappingAdd(WrappingAdd(WrappingAdd(a, f), words[WordIdx(round, i) + 1]),
                         RoundK(round, i))
    IN  << d, WrappingAdd(b, rotl(t, RotAmount(round, i))), b, c >>

\* fn process_block(&mut self, block): the new self.state.  Mix[round, i, r]
\* runs the inner loop of `round` from step i on the registers r.
ProcessBlock(state, block) ==
    LET words == BlockWords(block)
        Mix[round \in 0..3, i \in 0..16, r \in Seq(Seq(Nat))] ==
            IF i >= 16 THEN r
            ELSE Mix[round, i + 1, MixStep(r, words, round, i)]
        r == Mix[3, 0, Mix[2, 0, Mix[1, 0, Mix[0, 0, state]]]]
    IN  << WrappingAdd(state[1], r[1]), WrappingAdd(state[2], r[2]),
           WrappingAdd(state[3], r[3]), WrappingAdd(state[4], r[4]) >>

\* ------------------------------------------------------------------------
\* The digest engine.  An engine is the record of the struct's three
\* fields and a history field, compressed: the blocks handed to
\* process_block so far, in call order.
\* ------------------------------------------------------------------------

BlockLen == 64

\* SMCHash::new()
NewHasher ==
    [state |-> InitialState, buffer |-> <<>>, total_bytes |-> 0, compressed |-> <<>>]

\* the drain loop with buffer.clear() in place of buffer.drain(0..64): the
\* bytes behind the first block are dropped
DrainBlocksClear(h) ==
    IF Len(h.buffer) >= BlockLen
    THEN LET block_data == SubSeq(h.buffer, 1, BlockLen)
         IN  [h EXCEPT !.state = ProcessBlock(h.state, block_data),
                       !.buffer = <<>>,
                       !.compressed = Append(h.compressed, block_data)]
    ELSE h

\* while self.buffer.len() >= 64 { process_block(buffer[0..64]); buffer.drain(0..64) }
RECURSIVE DrainBlocks(_)
DrainBlocks(h) ==
    IF Len(h.buffer) >= BlockLen
    THEN LET block_data == SubSeq(h.buffer, 1, BlockLen)
         IN  DrainBlocks([h EXCEPT !.state = ProcessBlock(h.state, block_data),
                                   !.buffer = SubSeq(h.buffer, BlockLen + 1, Len(h.buffer)),
                                   !.compressed = Append(h.compressed, block_data)])
    ELSE h

\* update with `if` in place of `while`: at most one block leaves the buffer
UpdateDrainOnce(h, data) ==
    LET g == [h EXCEPT !.buffer = h.buffer \o data,
                       !.total_bytes = h.total_bytes + Len(data)]
    IN  IF Len(g.buffer) >= BlockLen
        THEN LET block_data == SubSeq(g.buffer, 1, BlockLen)
             IN  [g EXCEPT !.state = ProcessBlock(g.state, block_data),
                           !.buffer = SubSeq(g.buffer, BlockLen + 1, Len(g.buffer)),
                           !.compressed = Append(g.compressed, block_data)]
        ELSE g

\* pub fn update(&mut self, data); total_bytes stays far below 2^64
Update(h, data) ==
    DrainBlocks([h EXCEPT !.buffer = h.buffer \o data,
                          !.total_bytes = h.total_bytes + Len(data)])

\* while self.buffer.len() % 64 != 56 { self.buffer.push(0) }: the loop
\* pushes the least number of zero bytes that brings the length to 56 mod 64
PadZeros(buf) ==
    buf \o [i \in 1..((56 + BlockLen - (Len(buf) % BlockLen)) % BlockLen) |-> 0]

\* finalize that appends the length in bytes where the code appends it in bits
FinalizeEngineByteLen(h) ==
    DrainBlocks([h EXCEPT !.buffer = PadZeros(Append(h.buffer, 128)) \o ToLeBytes64(h.total_bytes)])

\* finalize up to the point where the last blocks have been processed
FinalizeEngine(h) ==
    LET bit_len == h.total_bytes * 8
    IN  DrainBlocks([h EXCEPT !.buffer = PadZeros(Append(h.buffer, 128)) \o ToLeBytes64(bit_len)])

\* the 16 result bytes of a state
StateBytes(state) ==
    ToLeBytes32(state[1]) \o ToLeBytes32(state[2]) \o ToLeBytes32(state[3]) \o ToLeBytes32(state[4])

\* pub fn finalize(mut self) -> [u8; 16]
Finalize(h) == StateBytes(FinalizeEngine(h).state)

\* pub fn hash(data) -> [u8; 16]
Hash(data) == Finalize(Update(NewHasher, data))

\* the digest both create_proof_of_work and verify_proof_of_work compute:
\* SMCHash::new(), update(data), update(&nonce.to_le_bytes()), finalize()
PowHash(data, nonce) ==
    Finalize(Update(Update(NewHasher, data), ToLeBytes64(nonce)))

\* ------------------------------------------------------------------------
\* verify: the comparison of two 16-byte hashes
\* ------------------------------------------------------------------------

HashLen == 16

HashBits == HashLen * 8

ZeroHash == [i \in 1..HashLen |-> 0]

\* for i in 0..16 { result |= computed_hash[i] ^ expected_hash[i]; }
\* from index i (0-based) with the accumulator result
RECURSIVE OrOfXor(_, _, _, _)
OrOfXor(computed_hash, expected_hash, i, result) ==
    IF i >= HashLen THEN result
    ELSE OrOfXor(computed_hash, expected_hash, i + 1,
                 BitOr(result, BitXor(computed_hash[i + 1], expected_hash[i + 1])))

\* the comparison with the loop one byte short
VerifyCompareShort(computed_hash, expected_hash) ==
    OrOfXor([computed_hash EXCEPT ![HashLen] = 0], [expected_hash EXCEPT ![HashLen] = 0], 0, 0) = 0

\* the comparison of verify, after the hash has been recomputed
VerifyCompare(computed_hash, expected_hash) ==
    OrOfXor(computed_hash, expected_hash, 0, 0) = 0

\* pub fn verify(data, expected_hash) -> bool
Verify(data, expected_hash) == VerifyCompare(Hash(data), expected_hash)

\* ------------------------------------------------------------------------
\* Proof of work.  An indexing hash[i] with i >= 16 panics, in every build.
\* ------------------------------------------------------------------------

\* for i in 0..zeros_required { if hash[i] != 0 { ... } }, from index i:
\* "zero" when the loop ends, "nonzero" when it meets a non-zero byte,
\* "panic" when it indexes past the hash
RECURSIVE FullZeroBytes(_, _, _)
FullZeroBytes(hash, i, zeros_required) ==
    IF i >= zeros_required THEN "zero"
    ELSE IF i >= Len(hash) THEN "panic"
    ELSE IF hash[i + 1] # 0 THEN "nonzero"
    ELSE FullZeroBytes(hash, i + 1, zeros_required)

\* the mask with the shift 0xFF >> difficulty
SearchMaskShiftByDifficulty(difficulty, checks) ==
    IF difficulty >= 8 THEN 255 ELSE ShrU8(255, difficulty)

\* let target_mask = if difficulty >= 8 { 0xFF } else { 0xFF >> (8 - difficulty) };
\* -1 stands for the panic of a build with overflow checks, where the shift
\* count 8 is not below the 8 bits of the u8; without them the count is
\* taken modulo 8.
SearchMask(difficulty, checks) ==
    IF difficulty >= 8 THEN 255
    ELSE IF 8 - difficulty >= 8
         THEN IF checks THEN -1 ELSE ShrU8(255, (8 - difficulty) % 8)
         ELSE ShrU8(255, 8 - difficulty)

\* the acceptance test of the search loop: "valid", "invalid" or "panic"
SearchValid(hash, difficulty, target_mask) ==
    LET zeros_required == difficulty \div 8
        bits_in_last_byte == difficulty % 8
        full == FullZeroBytes(hash, 0, zeros_required)
    IN  IF full = "panic" THEN "panic"
        ELSE IF full = "nonzero" THEN "invalid"
        ELSE IF bits_in_last_byte > 0
             THEN IF zeros_required >= Len(hash) THEN "panic"
                  ELSE IF BitAnd(hash[zeros_required + 1], target_mask) = 0
                       THEN "valid" ELSE "invalid"
             ELSE "valid"

\* verify_proof_of_work without its comparison of hash and expected_hash
VerifyCheckNoCompare(hash, difficulty, expected_hash) ==
    LET zeros_required == difficulty \div 8
        bits_in_last_byte == difficulty % 8
        target_mask == IF bits_in_last_byte = 0 THEN 0
                       ELSE ShrU8(255, 8 - bits_in_last_byte)
        full == FullZeroBytes(expected_hash, 0, zeros_required)
    IN  IF full = "panic" THEN "panic"
        ELSE IF full = "nonzero" THEN "false"
        ELSE IF bits_in_last_byte > 0
             THEN IF zeros_required >= Len(expected_hash) THEN "panic"
                  ELSE IF BitAnd(expected_hash[zeros_required + 1], target_mask) # 0
                       THEN "false" ELSE "true"
             ELSE "true"

\* verify_proof_of_work once hash has been recomputed (the function is
\* VerifyCheck(PowHash(data, nonce), difficulty, expected_hash)):
\* "true", "false" or "panic"
VerifyCheck(hash, difficulty, expected_hash) ==
    IF hash # expected_hash THEN "false"
    ELSE LET zeros_required == difficulty \div 8
             bits_in_last_byte == difficulty % 8
             target_mask == IF bits_in_last_byte = 0 THEN 0
                            ELSE ShrU8(255, 8 - bits_in_last_byte)
             full == FullZeroBytes(hash, 0, zeros_required)
         IN  IF full = "panic" THEN "panic"
             ELSE IF full = "nonzero" THEN "false"
             ELSE IF bits_in_last_byte > 0
                  THEN IF zeros_required >= Len(hash) THEN "panic"
                       ELSE IF BitAnd(hash[zeros_required + 1], target_mask) # 0
                            THEN "false" ELSE "true"
                  ELSE "true"

\* ------------------------------------------------------------------------
\* Block
\* ------------------------------------------------------------------------

NoBlock == [prev_hash |-> <<>>, data |-> <<>>, timestamp |-> 0, nonce |-> 0, hash |-> <<>>]

\* fn get_hashable_data(&self) -> Vec<u8>
GetHashableData(b) == b.prev_hash \o b.data \o ToLeBytes64(b.timestamp)

\* ------------------------------------------------------------------------
\* Bounds and inputs
\* ------------------------------------------------------------------------

\* the search is followed through the nonces 0 .. MaxNonce
MaxNonce == 2

\* the difficulties 0 .. MaxLowDifficulty, and those around the 128 bits of
\* the hash up to the largest u8
MaxLowDifficulty == 28

U8Max == 255

Difficulties ==
    (0..MaxLowDifficulty)
        \cup {HashBits - 1, HashBits, HashBits + 1, HashBits + 7, HashBits + 8, U8Max}

\* an engine is fed at most MaxTotal bytes
MaxTotal == 150

\* Inputs of create_proof_of_work.  PowHash(PowDataA, 1) starts 00 80,
\* PowHash(PowDataB, 2) starts 00 00 00 48, PowDataC fills a block with its nonce.
PowDataA == <<17, 214, 0, 0>>

PowDataB == <<140, 253, 23, 0>>

PowDataC == [i \in 1..60 |-> i - 1]

PowData == {PowDataA, PowDataB, PowDataC}

\* Inputs of Block::new.  With the first timestamp the hash at nonce 1 starts
\* 00 00 ac; the second is the one of examples/basic_hash.rs.
BlockPayload == <<104, 105>>

BlockTimestamps == {290069, 12345}

\* Inputs of verify
DigestData == {<<>>, <<97, 98, 99>>, PowDataC \o <<1, 2, 3, 4, 5, 6, 7, 8, 9, 10>>}

\* a hash with bit `bit` of byte i (1-based) flipped
FlipBit(h, i, bit) == [h EXCEPT ![i] = BitXor(h[i], Pow2(bit))]

\* the stream of bytes an engine is fed from
Stream(k) == [i \in 1..(MaxTotal + 1) |-> (k * 101 + i * 37) % 256]

Streams == {1, 2}

UpdateLens == {0, 1, 7, 8, 55, 56, 63, 64, 65, 130}

\* ------------------------------------------------------------------------
\* State
\* ------------------------------------------------------------------------

VARIABLES
    overflow_checks,  \* whether the build checks arithmetic overflow (debug) or wraps (release)
    pow_pc,           \* create_proof_of_work: "none", "loop", "returned", "panicked"
    data,             \* its argument data
    difficulty,       \* its argument difficulty
    target_mask,      \* its local target_mask
    nonce,            \* its local nonce
    hash,             \* its local hash, of the last iteration
    tried,            \* history: the hashes the loop has tested, in order
    panic,            \* the panic message, "" while there is none
    block,            \* the Block of Block::new
    block_pc,         \* Block::new: "none", "mining", "built"
    v,                \* the call of verify_proof_of_work or Block::validate made, with its result
    dv,               \* the call of verify made, with its result
    hasher,           \* an engine used on its own
    stream,           \* the stream it is fed from
    fed,              \* history: the number of bytes submitted to it
    hasher_pc,        \* "accumulating", "finalized"
    digest            \* the result of its finalize

vars == << overflow_checks, pow_pc, data, difficulty, target_mask, nonce, hash, tried, panic,
           block, block_pc, v, dv, hasher, stream, fed, hasher_pc, digest >>

powVars == <<pow_pc, data, difficulty, target_mask, nonce, hash, tried, panic>>

engineVars == <<hasher, stream, fed, hasher_pc, digest>>

callVars == <<block, block_pc, v, dv>>

NoCall ==
    [op |-> "none", data |-> <<>>, nonce |-> 0, difficulty |-> 0, expected |-> <<>>,
     computed |-> <<>>, tamper |-> "none", result |-> "none"]

NoVerify == [op |-> "none", data |-> <<>>, expected |-> <<>>, result |-> FALSE]

Idle == pow_pc = "none" /\ block_pc = "none" /\ v.op = "none" /\ dv.op = "none"

\* no call made yet
NoCalls ==
    /\ pow_pc = "none"
    /\ data = <<>>
    /\ difficulty = 0
    /\ target_mask = 0
    /\ nonce = 0
    /\ hash = <<>>
    /\ tried = <<>>
    /\ panic = ""
    /\ block = NoBlock
    /\ block_pc = "none"
    /\ v = NoCall
    /\ dv = NoVerify

\* SMCHash::new()
FreshEngine ==
    /\ hasher = NewHasher
    /\ fed = 0
    /\ hasher_pc = "accumulating"
    /\ digest = <<>>

Init ==
    /\ overflow_checks \in BOOLEAN
    /\ NoCalls
    /\ FreshEngine
    /\ stream = 1

\* ------------------------------------------------------------------------
\* create_proof_of_work
\* ------------------------------------------------------------------------

\* entry of create_proof_of_work(x, d): nonce = 0 and the target mask
PowEntry(x, d) ==
    /\ data' = x
    /\ difficulty' = d
    /\ nonce' = 0
    /\ hash' = <<>>
    /\ tried' = <<>>
    /\ \E mask \in {SearchMask(d, overflow_checks)} :
          IF mask < 0
          THEN /\ pow_pc' = "panicked"
               /\ panic' = "attempt to shift right with overflow"
               /\ target_mask' = 0
          ELSE /\ pow_pc' = "loop"
               /\ panic' = ""
               /\ target_mask' = mask

\* a caller calls create_proof_of_work(x, d)
CreateProofOfWork ==
    /\ Idle
    /\ \E x \in PowData, d \in Difficulties : PowEntry(x, d)
    /\ UNCHANGED <<overflow_checks, block, block_pc, v, dv, engineVars>>

\* one iteration of the loop.  nonce += 1 overflows only at 2^64 - 1 (a panic
\* with overflow checks, a wrap to 0 without); here nonce <= MaxNonce.
MineStep ==
    /\ pow_pc = "loop"
    /\ nonce <= MaxNonce
    /\ \E h \in {PowHash(data, nonce)} :
          /\ hash' = h
          /\ tried' = Append(tried, h)
          /\ \E valid \in {SearchValid(h, difficulty, target_mask)} :
                CASE valid = "panic" ->
                        /\ pow_pc' = "panicked"
                        /\ panic' = "index out of bounds"
                        /\ nonce' = nonce
                  [] valid = "valid" ->
                        /\ pow_pc' = "returned"
                        /\ UNCHANGED <<panic, nonce>>
                  [] OTHER ->
                        /\ nonce' = nonce + 1
                        /\ UNCHANGED <<pow_pc, panic>>
    /\ UNCHANGED <<overflow_checks, data, difficulty, target_mask, block, block_pc, v, dv,
                   engineVars>>

\* ------------------------------------------------------------------------
\* verify_proof_of_work, called on what create_proof_of_work returned: with
\* the nonce returned or the next one, with the hash returned, the hash
\* with one bit flipped, or the zero hash, at any difficulty
\* ------------------------------------------------------------------------

ExpectedChoices(h) == {h, ZeroHash, FlipBit(h, HashLen, 0), FlipBit(h, 1, 7)}

CallVerifyProofOfWork ==
    /\ pow_pc = "returned"
    /\ block_pc = "none"
    /\ v.op = "none"
    /\ \E n \in {nonce, nonce + 1} :
       \E computed \in {PowHash(data, n)} :
       \E expected \in ExpectedChoices(hash), d \in Difficulties :
          v' = [op |-> "verify_proof_of_work", data |-> data, nonce |-> n, difficulty |-> d,
                expected |-> expected, computed |-> computed, tamper |-> "none",
                result |-> VerifyCheck(computed, d, expected)]
    /\ UNCHANGED <<overflow_checks, powVars, block, block_pc, dv, engineVars>>

\* ------------------------------------------------------------------------
\* Block
\* ------------------------------------------------------------------------

\* Block::new(prev_hash, data, timestamp, difficulty) up to its call of
\* create_proof_of_work
BlockNew ==
    /\ Idle
    /\ \E t \in BlockTimestamps, d \in Difficulties :
          \E b \in {[prev_hash |-> ZeroHash, data |-> BlockPayload, timestamp |-> t,
                     nonce |-> 0, hash |-> ZeroHash]} :
             /\ block' = b
             /\ PowEntry(GetHashableData(b), d)
    /\ block_pc' = "mining"
    /\ UNCHANGED <<overflow_checks, v, dv, engineVars>>

\* Block::new storing the hash returned and not the nonce
BlockNewReturnNoNonce ==
    /\ block_pc = "mining"
    /\ pow_pc = "returned"
    /\ block' = [block EXCEPT !.hash = hash]
    /\ block_pc' = "built"
    /\ UNCHANGED <<overflow_checks, powVars, v, dv, engineVars>>

\* Block::new from the return of create_proof_of_work
BlockNewReturn ==
    /\ block_pc = "mining"
    /\ pow_pc = "returned"
    /\ block' = [block EXCEPT !.nonce = nonce, !.hash = hash]
    /\ block_pc' = "built"
    /\ UNCHANGED <<overflow_checks, powVars, v, dv, engineVars>>

\* the block as built, or a block with another payload and the nonce and
\* hash of the block built
BlockChoices(b) == {<<"none", b>>, <<"payload", [b EXCEPT !.data = Append(b.data, 88)]>>}

\* validate(d) on such a block
BlockValidate ==
    /\ block_pc = "built"
    /\ v.op = "none"
    /\ \E c \in BlockChoices(block) :
       \E x \in {GetHashableData(c[2])} :
       \E computed \in {PowHash(x, c[2].nonce)} :
       \E d \in Difficulties :
          v' = [op |-> "validate", data |-> x, nonce |-> c[2].nonce, difficulty |-> d,
                expected |-> c[2].hash, computed |-> computed, tamper |-> c[1],
                result |-> VerifyCheck(computed, d, c[2].hash)]
    /\ UNCHANGED <<overflow_checks, powVars, block, block_pc, dv, engineVars>>

\* ------------------------------------------------------------------------
\* verify(x, e), with e the hash of x, that hash with one bit flipped, the
\* hash of another input, or the zero hash
\* ------------------------------------------------------------------------

VerifyChoices(h) ==
    {h, ZeroHash} \cup {FlipBit(h, i, i % 8) : i \in 1..HashLen} \cup {Hash(<<120>>)}

CallVerify ==
    /\ Idle
    /\ \E x \in DigestData :
       \E expected \in VerifyChoices(Hash(x)) :
          dv' = [op |-> "verify", data |-> x, expected |-> expected,
                 result |-> Verify(x, expected)]
    /\ UNCHANGED <<overflow_checks, powVars, block, block_pc, v, engineVars>>

Next ==
    \/ CreateProofOfWork
    \/ MineStep
    \/ CallVerifyProofOfWork
    \/ BlockNew
    \/ BlockNewReturn
    \/ BlockValidate
    \/ CallVerify

Spec == Init /\ [][Next]_vars

\* ------------------------------------------------------------------------
\* An engine used on its own: update with the next n bytes of the stream,
\* then finalize
\* ------------------------------------------------------------------------

\* (no arithmetic of the engine overflows within MaxTotal bytes, so one
\* build stands for both)
InitEngine ==
    /\ overflow_checks = FALSE
    /\ NoCalls
    /\ FreshEngine
    /\ stream \in Streams

EngineUpdate ==
    /\ hasher_pc = "accumulating"
    /\ \E n \in UpdateLens :
          /\ fed + n <= MaxTotal
          /\ hasher' = Update(hasher, SubSeq(Stream(stream), fed + 1, fed + n))
          /\ fed' = fed + n
    /\ UNCHANGED <<overflow_checks, powVars, callVars, stream, hasher_pc, digest>>

EngineFinalize ==
    /\ hasher_pc = "accumulating"
    /\ \E h \in {FinalizeEngine(hasher)} :
          /\ hasher' = h
          /\ digest' = StateBytes(h.state)
    /\ hasher_pc' = "finalized"
    /\ UNCHANGED <<overflow_checks, powVars, callVars, stream, fed>>

NextEngine ==
    \/ EngineUpdate
    \/ EngineFinalize

SpecEngine == InitEngine /\ [][NextEngine]_vars

\* ------------------------------------------------------------------------
\* One engine fed a stream in pieces, or else a search that feeds each of
\* its engines the data and then the 8 bytes of the nonce
\* ------------------------------------------------------------------------

\* update of an engine a caller holds
ChunkedUpdate ==
    /\ pow_pc = "none"
    /\ EngineUpdate

\* finalize of an engine a caller holds
ChunkedFinalize ==
    /\ pow_pc = "none"
    /\ EngineFinalize

\* create_proof_of_work called in place of any use of the caller's engine
TwoUpdateSearch ==
    /\ hasher_pc = "accumulating"
    /\ fed = 0
    /\ CreateProofOfWork

NextChunking ==
    \/ ChunkedUpdate
    \/ ChunkedFinalize
    \/ TwoUpdateSearch
    \/ MineStep

SpecChunking == InitEngine /\ [][NextChunking]_vars

\* ------------------------------------------------------------------------
\* verify_proof_of_work with the recomputed digest left open: the call is
\* made for every value of a family of 16-byte values the digest of
\* data and nonce may be, instead of for the digests of chosen inputs.
\* ------------------------------------------------------------------------

\* k zero bytes, then the byte b, then bytes 255
HashShape(k, b) == [i \in 1..HashLen |-> IF i <= k THEN 0 ELSE IF i = k + 1 THEN b ELSE 255]

AnyHashes == {HashShape(k, b) : k \in 0..HashLen, b \in {1, 16, 128, 254, 255}}

VerifyProofOfWorkAnyDigest ==
    /\ v.op = "none"
    /\ \E computed \in AnyHashes :
       \E expected \in {computed, ZeroHash, FlipBit(computed, HashLen, 0)} :
       \E d \in 0..U8Max :
          v' = [op |-> "verify_proof_of_work", data |-> <<>>, nonce |-> 0, difficulty |-> d,
                expected |-> expected, computed |-> computed, tamper |-> "none",
                result |-> VerifyCheck(computed, d, expected)]
    /\ UNCHANGED <<overflow_checks, powVars, block, block_pc, dv, engineVars>>

SpecAnyDigest == Init /\ [][VerifyProofOfWorkAnyDigest]_vars

\* ------------------------------------------------------------------------
\* Properties
\* ------------------------------------------------------------------------

\* The difficulty predicate as the specification states it: the first
\* d / 8 bytes of h are zero and, when d mod 8 > 0, byte d / 8 masked with
\* 0xFF >> (8 - d mod 8) is zero.  A 16-byte hash has no more than 128 bits.
MeetsDifficulty(h, d) ==
    /\ d <= HashBits
    /\ \A i \in 1..(d \div 8) : h[i] = 0
    /\ (d % 8 > 0) => BitAnd(h[(d \div 8) + 1], ShrU8(255, 8 - (d % 8))) = 0

\* the call of verify_proof_of_work with exactly what create_proof_of_work
\* returned, at the difficulty it was called with
VerifiesMined ==
    /\ pow_pc = "returned"
    /\ v.op = "verify_proof_of_work"
    /\ v.data = data
    /\ v.nonce = nonce
    /\ v.difficulty = difficulty
    /\ v.expected = hash

\* C1: whenever create_proof_of_work(data, d) returns (nonce, h),
\* verify_proof_of_work(data, nonce, d, h) returns true.
C1_PowSoundness == VerifiesMined => v.result = "true"

\* a search at a difficulty d >= 8 with d mod 8 # 0 that returned a nonce
\* above 0, verified
C1_Witness ==
    /\ VerifiesMined
    /\ difficulty >= 8
    /\ difficulty % 8 # 0
    /\ nonce > 0
    /\ v.result = "true"

\* C2: create_proof_of_work returns the smallest nonce whose hash satisfies
\* the difficulty predicate: the hash returned satisfies it, and no hash the
\* search has tested and passed over does.
C2_SmallestNonce ==
    (pow_pc \in {"loop", "returned"} /\ difficulty <= HashBits) =>
        /\ pow_pc = "returned" => MeetsDifficulty(hash, difficulty)
        /\ \A k \in 1..Len(tried) :
              MeetsDifficulty(tried[k], difficulty) => (pow_pc = "returned" /\ k = Len(tried))

\* C3: verify_proof_of_work returns true if and only if the recomputed
\* digest equals expected and expected satisfies the difficulty predicate;
\* at a difficulty up to 128 it returns false otherwise.
C3_VerifyIffBoth ==
    v.op = "verify_proof_of_work" =>
        LET both == v.computed = v.expected /\ MeetsDifficulty(v.expected, v.difficulty)
        IN  /\ v.result = "true" <=> both
            /\ (~both /\ v.difficulty <= HashBits) => v.result = "false"

\* a call whose expected hash is the recomputed one and misses the difficulty
C3_Witness ==
    /\ v.op = "verify_proof_of_work"
    /\ v.computed = v.expected
    /\ v.difficulty <= HashBits
    /\ v.difficulty % 8 # 0
    /\ v.result = "false"

\* C4: the block returned by Block::new(prev_hash, payload, timestamp, d)
\* satisfies validate(d): validate rebuilds the preimage new has mined and
\* the stored nonce and hash pass verification at d.
C4_BlockValid ==
    (v.op = "validate" /\ v.tamper = "none" /\ v.difficulty = difficulty) =>
        /\ v.data = data
        /\ v.nonce = nonce
        /\ v.expected = hash
        /\ v.result = "true"

\* a block mined at a nonce above 0 at a difficulty above 8, validated
C4_Witness ==
    /\ v.op = "validate"
    /\ v.tamper = "none"
    /\ v.difficulty = difficulty
    /\ difficulty > 8
    /\ block.nonce > 0
    /\ v.result = "true"

\* C5: a difficulty above 128 passed to create_proof_of_work, or to
\* Block::new, is rejected with an explicit error: the call never enters
\* the search.
C5_RejectsAbove128 ==
    (pow_pc # "none" /\ difficulty > HashBits) => pow_pc = "rejected"

C7_NeverAborts == pow_pc # "panicked"

\* C8: verify(x, e) returns true exactly when hash(x) equals e in all 16 bytes.
C8_VerifyExact == dv.op = "verify" => (dv.result <=> Hash(dv.data) = dv.expected)

\* verify on an input of more than one block with its own hash
C8_Witness ==
    /\ dv.op = "verify"
    /\ Len(dv.data) > BlockLen
    /\ dv.result

\* C9: create_proof_of_work accepts every difficulty 0 .. 128 without an
\* arithmetic error in its mask computation, and at difficulty 0 returns
\* nonce 0 with the first hash.
C9_MaskWithoutOverflow ==
    (pow_pc # "none" /\ difficulty <= HashBits) =>
        /\ panic # "attempt to shift right with overflow"
        /\ (difficulty = 0 /\ tried # <<>>) => (pow_pc = "returned" /\ nonce = 0)

\* what an engine fed the first `fed` bytes of its stream holds
EngineInvariant ==
    /\ Len(hasher.buffer) < BlockLen
    /\ Len(hasher.buffer) = hasher.total_bytes % BlockLen
    /\ Len(hasher.compressed) = hasher.total_bytes \div BlockLen
    /\ hasher.total_bytes = fed
    /\ \A k \in 1..Len(hasher.compressed) :
          hasher.compressed[k] = SubSeq(Stream(stream), BlockLen * (k - 1) + 1, BlockLen * k)
    /\ hasher.buffer = SubSeq(Stream(stream), fed - (fed % BlockLen) + 1, fed)

\* C10: on return from each update the buffer holds fewer than 64 bytes,
\* its length is total_bytes mod 64, total_bytes div 64 chunks have been
\* compressed, in input order, and total_bytes is the sum of the lengths
\* submitted and never decreases.
C10_UpdateInvariant ==
    /\ [](hasher_pc = "accumulating" => EngineInvariant)
    /\ [][hasher_pc' = "accumulating" => hasher'.total_bytes >= hasher.total_bytes]_vars

\* an engine that has compressed two chunks and buffers a remainder
C10_Witness ==
    /\ hasher_pc = "accumulating"
    /\ Len(hasher.compressed) >= 2
    /\ Len(hasher.buffer) > 0

\* the bytes finalize is to compress for an engine h before the call: its
\* buffer, 0x80, the least number of zero bytes that brings the length to
\* 56 mod 64, and the 8 little-endian bytes of total_bytes * 8
PaddedTail(h) ==
    LET k == CHOOSE z \in 0..(BlockLen - 1) : (Len(h.buffer) + 1 + z) % BlockLen = 56
    IN  h.buffer \o <<128>> \o [i \in 1..k |-> 0] \o ToLeBytes64(h.total_bytes * 8)

\* C11: a call of finalize compresses the buffer padded with 0x80, zero
\* bytes up to 56 mod 64 and the 8 little-endian bytes of total_bytes * 8,
\* a multiple of 64 bytes: exactly one chunk when at most 55 bytes were
\* buffered and exactly two when 56 .. 63 were; the chunks compressed
\* before stay, the state is the one these compressions give, the hash is
\* the bytes of that state, and the buffer is empty.
C11_FinalizePadding ==
    [][(hasher_pc = "accumulating" /\ hasher_pc' = "finalized") =>
          LET padded == PaddedTail(hasher)
              before == Len(hasher.compressed)
              n == IF Len(hasher.buffer) <= 55 THEN 1 ELSE 2
              first == ProcessBlock(hasher.state, SubSeq(padded, 1, BlockLen))
          IN  /\ Len(hasher.buffer) < BlockLen
              /\ Len(padded) = BlockLen * n
              /\ Len(hasher'.compressed) = before + n
              /\ SubSeq(hasher'.compressed, 1, before) = hasher.compressed
              /\ \A j \in 1..n :
                    hasher'.compressed[before + j] =
                        SubSeq(padded, BlockLen * (j - 1) + 1, BlockLen * j)
              /\ hasher'.state =
                    IF n = 1 THEN first
                    ELSE ProcessBlock(first, SubSeq(padded, BlockLen + 1, 2 * BlockLen))
              /\ hasher'.buffer = <<>>
              /\ hasher'.total_bytes = hasher.total_bytes
              /\ digest' = StateBytes(hasher'.state)]_vars

\* a finalized engine whose remainder was 56 .. 63 bytes, after one chunk
\* of input: finalize compressed two more
C11_Witness ==
    /\ hasher_pc = "finalized"
    /\ fed % BlockLen >= 56
    /\ fed \div BlockLen = 1
    /\ Len(hasher.compressed) = 3
    /\ hasher.buffer = <<>>
    /\ Len(digest) = HashLen

\* C12: an engine fed an input split at any points holds what an engine
\* given the whole input in one update holds (state, buffer, total_bytes
\* and the chunks compressed, in order), before and after finalize, and
\* its hash is SMCHash::hash of the input; the hash create_proof_of_work
\* computes for a nonce with update(data), update(LE8(nonce)) is
\* SMCHash::hash of data followed by the 8 little-endian bytes of the nonce.
C12_ChunkingIndependence ==
    LET input == SubSeq(Stream(stream), 1, fed)
    IN  /\ hasher_pc = "accumulating" => hasher = Update(NewHasher, input)
        /\ hasher_pc = "finalized" =>
              /\ hasher = FinalizeEngine(Update(NewHasher, input))
              /\ digest = Hash(input)
        /\ tried # <<>> => hash = Hash(data \o ToLeBytes64(Len(tried) - 1))

\* a finalized engine that was fed more than two chunks in at least two
\* updates (no single update has this length)
C12_Witness ==
    /\ hasher_pc = "finalized"
    /\ fed > 2 * BlockLen
    /\ fed \notin UpdateLens
    /\ Len(hasher.compressed) >= 3
    /\ digest = Hash(SubSeq(Stream(stream), 1, fed))
====
